---- MODULE Spec2Model ----
(***************************************************************************)
(* Model of the pango-backed text layout of piet-cairo                     *)
(* (piet-cairo/src/text.rs) behind the piet TextLayout trait               *)
(* (piet/src/text.rs): layout construction, width updates, the line        *)
(* accessors and the two hit tests.                                        *)
(*                                                                         *)
(* A text is a sequence of characters drawn from a small alphabet; byte    *)
(* offsets are computed from each character's UTF-8 length.  An f64 is     *)
(* modelled by a whole number of pixels, pango's fixed-point values by     *)
(* integers in pango units (PANGO_SCALE per pixel, 32 bits wide).          *)
(***************************************************************************)
EXTENDS Integers, Sequences, FiniteSets, TLC

\* ------------------------------------------------------------------------
\* Bounds of the model
\* ------------------------------------------------------------------------

\* greatest number of characters of a text
MaxLen == 3

\* ------------------------------------------------------------------------
\* Characters and UTF-8 strings
\* ------------------------------------------------------------------------

\* "a": U+0061 (letter, 1 byte)      "sp": U+0020 (space, 1 byte)
\* "em": U+2003 EM SPACE (3 bytes)   "nl": U+000A (line feed, 1 byte)
\* "vs": U+FE0F (variation selector, 3 bytes, extends the cluster before it)
Chars == {"a", "sp", "em", "nl", "vs"}

\* char::len_utf8
Utf8Len(c) ==
    CASE c = "a" -> 1
      [] c = "sp" -> 1
      [] c = "em" -> 3
      [] c = "nl" -> 1
      [] c = "vs" -> 3

\* char::is_whitespace (the Unicode White_Space property)
is_whitespace(c) == c \in {"sp", "em", "nl"}

\* Grapheme_Extend: the character never starts a grapheme cluster
IsExtend(c) == c = "vs"

\* advance width of a character in pixels, as the font reports it
CharWidth(c) ==
    CASE c = "a" -> 2
      [] c = "sp" -> 1
      [] c = "em" -> 3
      [] c = "nl" -> 0
      [] c = "vs" -> 0

RECURSIVE ByteLen(_)
\* str::len: the length of a string in bytes
ByteLen(s) == IF s = <<>> THEN 0 ELSE Utf8Len(Head(s)) + ByteLen(Tail(s))

RECURSIVE AdvanceWidth(_)
\* advance width of a string in pixels
AdvanceWidth(s) == IF s = <<>> THEN 0 ELSE CharWidth(Head(s)) + AdvanceWidth(Tail(s))

\* byte offset of the boundary after the first i characters of s
BytesBefore(s, i) == ByteLen(SubSeq(s, 1, i))

\* str::is_char_boundary
is_char_boundary(s, b) == \E i \in 0..Len(s) : BytesBefore(s, i) = b

\* the byte offsets of s at which a grapheme cluster starts or ends
GraphemeBoundaries(s) ==
    { BytesBefore(s, i) : i \in { j \in 0..Len(s) :
                                    j = 0 \/ j = Len(s) \/ ~IsExtend(s[j + 1]) } }

\* number of characters of s that lie before the character boundary b
CharsBefore(s, b) == CHOOSE i \in 0..Len(s) : BytesBefore(s, i) = b

\* &s[a..b]: a record with panic = TRUE when the slice is out of range or
\* cuts a character
StrSlice(s, a, b) ==
    IF a <= b /\ is_char_boundary(s, a) /\ is_char_boundary(s, b)
    THEN [panic |-> FALSE, str |-> SubSeq(s, CharsBefore(s, a) + 1, CharsBefore(s, b))]
    ELSE [panic |-> TRUE, str |-> <<>>]

\* all texts of at most n characters
Texts(n) == UNION { [1..k -> Chars] : k \in 0..n }

\* ------------------------------------------------------------------------
\* pango: units, font metrics and the lines of a pango::Layout
\* ------------------------------------------------------------------------

\* pango units per pixel
PANGO_SCALE == 1024

\* the bounds of a 32-bit int
INT_MAX == 2147483647

INT_MIN == -INT_MAX - 1

\* f64::INFINITY, the width of an unconstrained layout: a value above
\* every finite f64 of the model
F64_INFINITY == 2147483647

\* a usize: hi * 2^31 + lo, with lo < 2^31
usize(n) == [hi |-> 0, lo |-> n]

\* usize -> i32 by try_into: None above i32::MAX
try_into_i32(u) == IF u.hi = 0 THEN [some |-> TRUE, val |-> u.lo]
                   ELSE [some |-> FALSE, val |-> 0]

\* ascent and line height, in pixels, of the default font
FONT_ASCENT == 10

FONT_HEIGHT == 12

Min(S) == CHOOSE m \in S : \A n \in S : m <= n

Max(S) == CHOOSE m \in S : \A n \in S : n <= m

\* pango_units_from_double: (int) floor(d * PANGO_SCALE + 0.5).  The
\* conversion of a value outside the range of int is undefined in C: the
\* result is then any of the values a build produces (the "integer
\* indefinite" value, a saturated value, or the low 32 bits).
units_from_double(d) ==
    LET range == (INT_MAX \div PANGO_SCALE) + 1
        low == (((d + range) % (2 * range)) - range) * PANGO_SCALE
    IN  IF -range <= d /\ d < range
        THEN {d * PANGO_SCALE}
        ELSE {INT_MIN, IF d < 0 THEN INT_MIN ELSE INT_MAX, low}

\* pango_units_to_double: exact here, every metric of the font being a
\* whole number of pixels
units_to_double(u) == u \div PANGO_SCALE

\* last character (index) of the paragraph that holds character i
ParaEnd(t, i) ==
    LET nls == { k \in i..Len(t) : t[k] = "nl" }
    IN  IF nls = {} THEN Len(t) ELSE Min(nls) - 1

\* last character of t[i..k] that is not trailing whitespace (i-1 if none)
VisibleEnd(t, i, k) == Max({i - 1} \cup { j \in i..k : ~is_whitespace(t[j]) })

\* t[i..k] without its trailing whitespace is at most w units wide
Fits(t, i, k, w) ==
    AdvanceWidth(SubSeq(t, i, VisibleEnd(t, i, k))) * PANGO_SCALE <= w

\* PANGO_WRAP_WORD: a line may end after whitespace that a word follows
BreakOpps(t, i, e) ==
    { k \in i..(e - 1) : is_whitespace(t[k]) /\ ~is_whitespace(t[k + 1]) }

\* last character of the line that starts at character i of a paragraph
\* ending at e: the longest prefix that fits, a lone word if none does
WrapEnd(t, i, e, w) ==
    IF w < 0 \/ Fits(t, i, e, w)
    THEN e
    ELSE LET opps == BreakOpps(t, i, e)
             fit == { k \in opps : Fits(t, i, k, w) }
         IN  IF fit # {} THEN Max(fit)
             ELSE IF opps # {} THEN Min(opps)
             ELSE e

RECURSIVE LinesFrom(_, _, _)
\* the lines of t from character i on, each with the byte index of its
\* start and its length in bytes (without the paragraph delimiter)
LinesFrom(t, i, w) ==
    LET e == ParaEnd(t, i)
        k == WrapEnd(t, i, e, w)
        line == [start_index |-> BytesBefore(t, i - 1),
                 length |-> ByteLen(SubSeq(t, i, k))]
    IN  IF k < e THEN <<line>> \o LinesFrom(t, k + 1, w)
        ELSE IF e < Len(t) THEN <<line>> \o LinesFrom(t, e + 2, w)
        ELSE <<line>>

\* the lines pango computes for a text and a width: one line for the empty
\* text, one more line after a final line feed
layout_lines(t, w) == LinesFrom(t, 1, w)

\* pango_layout_get_lines of a layout L = [text, width, lines]: the layout
\* keeps the lines computed for its text and width
pango_lines(L) == L.lines

\* pango_layout_get_line_count
get_line_count(L) == Len(pango_lines(L))

\* the characters of line n (0-based) of L
LineChars(L, n) ==
    LET ln == pango_lines(L)[n + 1]
    IN  StrSlice(L.text, ln.start_index, ln.start_index + ln.length).str

\* the line after line n starts where line n ends (a soft wrap)
IsWrapped(L, n) ==
    /\ n + 1 < get_line_count(L)
    /\ pango_lines(L)[n + 2].start_index =
         pango_lines(L)[n + 1].start_index + pango_lines(L)[n + 1].length

\* logical extents of line n in units: lines are stacked from the top
line_y(n) == n * FONT_HEIGHT * PANGO_SCALE

line_baseline(n) == line_y(n) + FONT_ASCENT * PANGO_SCALE

\* ------------------------------------------------------------------------
\* pango: the line iterator and the hit tests of a pango::Layout
\* ------------------------------------------------------------------------

\* pango_layout_get_iter: an iterator on the first line
get_iter(L) == [line |-> 0]

\* pango_layout_iter_at_last_line
at_last_line(L, iter) == iter.line = get_line_count(L) - 1

\* pango_layout_iter_next_line: stays put on the last line
next_line(L, iter) ==
    IF at_last_line(L, iter) THEN iter ELSE [line |-> iter.line + 1]

\* pango_layout_iter_get_index of an iterator at the start of its line
get_index(L, iter) == pango_lines(L)[iter.line + 1].start_index

\* the top of the iterator's line in place of its baseline
get_line_top(L, iter) == line_y(iter.line)

\* pango_layout_iter_get_baseline: from the top of the layout, in units
get_baseline(L, iter) == line_baseline(iter.line)

\* line extents whose y is the baseline of the line, not its top
get_line_extents_at_baseline(L, iter) ==
    [y |-> line_baseline(iter.line), height |-> FONT_HEIGHT * PANGO_SCALE]

\* pango_layout_iter_get_line_extents: the logical rectangle
get_line_extents(L, iter) ==
    [y |-> line_y(iter.line), height |-> FONT_HEIGHT * PANGO_SCALE]

\* the grapheme clusters of a line's characters lc, each with the number of
\* characters before it, its number of characters and its x-extent in units
Clusters(lc) ==
    LET starts == { j \in 1..Len(lc) : j = 1 \/ ~IsExtend(lc[j]) }
        endOf(j) == Min({ k \in starts : k > j } \cup {Len(lc) + 1}) - 1
    IN  { [first |-> j - 1,
           chars |-> endOf(j) - j + 1,
           leading |-> AdvanceWidth(SubSeq(lc, 1, j - 1)) * PANGO_SCALE,
           trailing |-> AdvanceWidth(SubSeq(lc, 1, endOf(j))) * PANGO_SCALE]
          : j \in starts }

\* pango_layout_line_x_to_index on line n, x relative to the line's left
line_x_to_index(L, n, x) ==
    LET ln == pango_lines(L)[n + 1]
        lc == LineChars(L, n)
        cl == Clusters(lc)
        last == CHOOSE c \in cl : \A d \in cl : d.first <= c.first
        at(c) == ln.start_index + BytesBefore(lc, c.first)
        hit == { c \in cl : c.leading <= x /\ x < c.trailing }
    IN  IF ln.length = 0
        THEN [inside |-> FALSE, index |-> ln.start_index, trailing |-> 0]
        ELSE IF x < 0
        THEN [inside |-> FALSE, index |-> ln.start_index, trailing |-> 0]
        ELSE IF hit # {}
        THEN LET c == CHOOSE c \in hit : TRUE
             IN  [inside |-> TRUE, index |-> at(c),
                  trailing |-> IF 2 * (x - c.leading) >= c.trailing - c.leading
                               THEN c.chars ELSE 0]
        ELSE [inside |-> FALSE, index |-> at(last),
              trailing |-> IF IsWrapped(L, n) THEN 0 ELSE last.chars]

\* pango_layout_xy_to_index: the line is found by y, a y above the first
\* line or below the last one picks that line and reports "outside"
xy_to_index(L, x, y) ==
    LET count == get_line_count(L)
        n == IF y < 0 THEN 0
             ELSE IF y >= line_y(count) THEN count - 1
             ELSE CHOOSE k \in 0..(count - 1) : line_y(k) <= y /\ y < line_y(k + 1)
        r == line_x_to_index(L, n, x)
    IN  [inside |-> r.inside /\ y >= 0 /\ y < line_y(count),
         index |-> r.index, trailing |-> r.trailing]

\* index_to_line_x with index 0 placed one pixel right of every other index
index_to_line_x_first_shifted(L, index, trailing) ==
    [line |-> 0, x_pos |-> IF index = 0 THEN PANGO_SCALE ELSE 0]

\* pango_layout_index_to_line_x: the line is the last one that starts at
\* or before index; x is the leading edge of the cluster that holds index
\* (its trailing edge with trailing = TRUE), the line's end for an index
\* beyond it
index_to_line_x(L, index, trailing) ==
    LET lines == pango_lines(L)
        n == Max({0} \cup { k \in 0..(Len(lines) - 1) : lines[k + 1].start_index <= index })
        ln == lines[n + 1]
        lc == LineChars(L, n)
        off == IF index > ln.start_index + ln.length THEN ln.length
               ELSE index - ln.start_index
        c == CHOOSE c \in Clusters(lc) :
               /\ BytesBefore(lc, c.first) <= off
               /\ off < BytesBefore(lc, c.first + c.chars)
    IN  [line |-> n,
         x_pos |-> IF off >= ln.length THEN AdvanceWidth(lc) * PANGO_SCALE
                   ELSE IF trailing THEN c.trailing ELSE c.leading]

\* the x of line n in layout coordinates (pango's x offset of a line): by
\* the alignment within the layout's width, the widest line standing in
\* for the width of a layout without one
line_x_offset(L, n) ==
    LET line_width(k) == AdvanceWidth(LineChars(L, k)) * PANGO_SCALE
        layout_width ==
            IF L.width = -1
            THEN Max({ line_width(k) : k \in 0..(get_line_count(L) - 1) })
            ELSE L.width
    IN  CASE L.alignment = "Left" -> 0
          [] L.alignment = "Center" -> (layout_width - line_width(n)) \div 2
          [] L.alignment = "Right" -> layout_width - line_width(n)

\* pango_layout_get_extents, the logical rectangle: the union of the
\* lines' rectangles in layout coordinates
get_extents(L) ==
    LET lines == 0..(get_line_count(L) - 1)
        left == Min({ line_x_offset(L, n) : n \in lines })
        right == Max({ line_x_offset(L, n)
                         + AdvanceWidth(LineChars(L, n)) * PANGO_SCALE
                       : n \in lines })
    IN  [x |-> left, y |-> 0,
         width |-> right - left,
         height |-> line_y(get_line_count(L))]

\* ------------------------------------------------------------------------
\* piet-cairo: PangoTextLayoutBuilder and PangoTextLayout
\* ------------------------------------------------------------------------

\* Option<T>
None == [some |-> FALSE, val |-> 0]

Some(v) == [some |-> TRUE, val |-> v]

\* pango::Layout::new: a layout without text and without a width
pango_layout_new ==
    [text |-> <<>>, width |-> -1, alignment |-> "Left",
     lines |-> layout_lines(<<>>, -1)]

\* pango_layout_set_alignment
set_alignment(L, a) == [L EXCEPT !.alignment = a]

\* the width pango_layout_set_width stores: every negative width means
\* "no width"
stored_width(width) == IF width < 0 THEN -1 ELSE width

\* pango_layout_set_width: the lines are computed anew
set_width(L, width) ==
    [L EXCEPT !.width = stored_width(width),
              !.lines = layout_lines(L.text, stored_width(width))]

\* PangoText::new_text_layout: the builder starts unconstrained and
\* aligned to the start
new_text_layout(t) ==
    [text |-> t, width_constraint |-> F64_INFINITY, alignment |-> "Start"]

\* PangoTextLayoutBuilder::alignment
alignment(b, a) == [b EXCEPT !.alignment = a]

\* PangoTextLayoutBuilder::max_width
max_width(b, width) == [b EXCEPT !.width_constraint = width]

\* update_width that returns at once for None and leaves the width as it is
update_width_none_keeps_width(tl, new_width) ==
    LET units == IF new_width.val = F64_INFINITY THEN {-1}
                 ELSE units_from_double(new_width.val)
    IN  IF ~new_width.some THEN {tl}
        ELSE { [tl EXCEPT !.layout = set_width(tl.layout, u)] : u \in units }

\* PangoTextLayout::update_width: the layouts the call may leave (one,
\* unless the conversion of the width to units is undefined)
update_width(tl, new_width) ==
    LET units == IF ~new_width.some THEN {-1}
                 ELSE IF new_width.val = F64_INFINITY THEN {-1}
                 ELSE units_from_double(new_width.val)
    IN  { [tl EXCEPT !.layout = set_width(tl.layout, u)] : u \in units }

\* PangoTextLayoutBuilder::build: the font description and the alignment
\* are set on a new pango layout, which is stored beside the text; then the
\* width is applied.  No call hands the text to the pango layout: the text
\* is kept in the `text` field of the PangoTextLayout only.
build(b) ==
    LET pango_alignment ==
            CASE b.alignment \in {"Start", "Justified"} -> "Left"
              [] b.alignment = "Center" -> "Center"
              [] b.alignment = "End" -> "Right"
    IN  update_width([layout |-> set_alignment(pango_layout_new, pango_alignment),
                      text |-> b.text],
                     Some(b.width_constraint))

RECURSIVE iter_at_line_number_from(_, _, _)
iter_at_line_number_from(L, iter, k) ==
    IF k = 0 THEN Some(iter)
    ELSE IF at_last_line(L, iter) THEN None
    ELSE iter_at_line_number_from(L, next_line(L, iter), k - 1)

\* iter_at_line_number without the test for the last line: the iterator
\* is advanced line_number times and always returned
iter_at_line_number_unchecked(tl, line_number) ==
    Some([line |-> Min({line_number, get_line_count(tl.layout) - 1})])

\* PangoTextLayout::iter_at_line_number
iter_at_line_number(tl, line_number) ==
    iter_at_line_number_from(tl.layout, get_iter(tl.layout), line_number)

\* iter_line_text without the case of the last line: the end is always
\* read from the iterator
iter_line_text_no_last_line(tl, iter) ==
    [start |-> get_index(tl.layout, iter),
     end |-> get_index(tl.layout, next_line(tl.layout, iter)),
     iter |-> next_line(tl.layout, iter)]

\* PangoTextLayout::iter_line_text: the byte range of the iterator's line
\* and the iterator as the call leaves it
iter_line_text(tl, iter) ==
    IF at_last_line(tl.layout, iter)
    THEN [start |-> get_index(tl.layout, iter),
          end |-> ByteLen(tl.text),
          iter |-> iter]
    ELSE [start |-> get_index(tl.layout, iter),
          end |-> get_index(tl.layout, next_line(tl.layout, iter)),
          iter |-> next_line(tl.layout, iter)]

\* count_trailing_whitespace
count_trailing_whitespace(line) ==
    LET n == Len(line)
    IN  Max({ k \in 0..n : \A j \in (n - k + 1)..n : is_whitespace(line[j]) })

\* PangoTextLayout::clone (derived): the clone refers to the pango layout
\* and to the text that the original refers to
clone(tl) == tl

\* PangoTextLayout::image_bounds
image_bounds(tl) ==
    LET r == get_extents(tl.layout)
        x0 == units_to_double(r.x)
        y0 == units_to_double(r.y)
    IN  [x0 |-> x0, y0 |-> y0,
         x1 |-> x0 + units_to_double(r.width),
         y1 |-> y0 + units_to_double(r.height)]

\* a size as wide as the text, whatever the pango layout holds
size_of_text(tl) ==
    [width |-> AdvanceWidth(tl.text), height |-> FONT_HEIGHT]

\* PangoTextLayout::size
size(tl) ==
    LET r == image_bounds(tl)
    IN  [width |-> r.x1 - r.x0, height |-> r.y1 - r.y0]

\* PangoTextLayout::line_count
line_count(tl) == get_line_count(tl.layout)

\* line_text that returns the first line for every line number
line_text_first_line(tl, line_number) ==
    LET r == iter_line_text(tl, get_iter(tl.layout))
        sl == StrSlice(tl.text, r.start, r.end)
    IN  [panic |-> sl.panic, some |-> ~sl.panic, str |-> sl.str]

\* PangoTextLayout::line_text
line_text(tl, line_number) ==
    LET it == iter_at_line_number(tl, line_number)
        r == iter_line_text(tl, it.val)
        sl == StrSlice(tl.text, r.start, r.end)
    IN  IF ~it.some THEN [panic |-> FALSE, some |-> FALSE, str |-> <<>>]
        ELSE [panic |-> sl.panic, some |-> ~sl.panic, str |-> sl.str]

NoLineMetric ==
    [panic |-> FALSE, some |-> FALSE, start_offset |-> 0, end_offset |-> 0,
     trailing_whitespace |-> 0, baseline |-> 0, height |-> 0, y_offset |-> 0]

\* PangoTextLayout::line_metric
line_metric(tl, line_number) ==
    LET it == iter_at_line_number(tl, line_number)
        ext == get_line_extents(tl.layout, it.val)
        r == iter_line_text(tl, it.val)
        sl == StrSlice(tl.text, r.start, r.end)
    IN  IF ~it.some THEN NoLineMetric
        ELSE IF sl.panic THEN [NoLineMetric EXCEPT !.panic = TRUE]
        ELSE [panic |-> FALSE, some |-> TRUE,
              start_offset |-> r.start,
              end_offset |-> r.end,
              trailing_whitespace |-> count_trailing_whitespace(sl.str),
              baseline |-> units_to_double(get_baseline(tl.layout, r.iter)),
              height |-> units_to_double(ext.height),
              y_offset |-> units_to_double(ext.y)]

\* hit_test_point with the x coordinate stored as the index
hit_test_point_idx_from_x(tl, px, py) ==
    { [panic |-> x < 0, idx |-> IF x < 0 THEN 0 ELSE x, is_inside |-> FALSE]
      : x \in units_from_double(px) }

\* PangoTextLayout::hit_test_point: the results the call may give (one,
\* unless the conversion of a coordinate to units is undefined)
hit_test_point(tl, px, py) ==
    { LET r == xy_to_index(tl.layout, x, y)
      IN  [panic |-> r.index < 0,
           idx |-> IF r.index < 0 THEN 0 ELSE r.index,
           is_inside |-> FALSE]
      : x \in units_from_double(px), y \in units_from_double(py) }

\* PangoTextLayout::hit_test_text_position
hit_test_text_position(tl, idx) ==
    LET i32 == try_into_i32(idx)
        r == index_to_line_x(tl.layout, i32.val, FALSE)
        it == iter_at_line_number(tl, r.line)
    IN  IF ~i32.some \/ r.line < 0 \/ ~it.some
        THEN [panic |-> TRUE, x |-> 0, y |-> 0, line |-> 0]
        ELSE [panic |-> FALSE,
              x |-> units_to_double(r.x_pos),
              y |-> units_to_double(get_baseline(tl.layout, it.val)),
              line |-> r.line]

\* usize::min(u, text_len), text_len being below 2^31
min_usize(u, text_len) ==
    IF u.hi > 0 \/ u.lo > text_len THEN text_len ELSE u.lo

\* TextLayout::rects_for_range (the provided method), for the resolved
\* range [range_start, range_end): one rectangle for each line from the
\* line of the start to the line of the end; the unwrap of a missing line
\* metric and the conversions in hit_test_text_position can panic
rects_for_range(tl, range_start, range_end) ==
    LET text_len == ByteLen(tl.text)
        start == min_usize(range_start, text_len)
        end == min_usize(range_end, text_len)
        first == hit_test_text_position(tl, usize(start))
        last == hit_test_text_position(tl, usize(end))
        first_line == first.line
        last_line == last.line
        line_range_start(line) ==
            IF line = first_line THEN start
            ELSE line_metric(tl, line).start_offset
        line_range_end(line) ==
            IF line = last_line THEN end
            ELSE line_metric(tl, line).end_offset
                   - line_metric(tl, line).trailing_whitespace
        start_point(line) == hit_test_text_position(tl, usize(line_range_start(line)))
        end_point(line) == hit_test_text_position(tl, usize(line_range_end(line)))
        fails(line) ==
            \/ ~line_metric(tl, line).some
            \/ line_metric(tl, line).panic
            \/ line_range_end(line) < 0
            \/ start_point(line).panic
            \/ end_point(line).panic
        rect(line) ==
            [x0 |-> start_point(line).x,
             y0 |-> line_metric(tl, line).y_offset,
             x1 |-> end_point(line).x,
             y1 |-> line_metric(tl, line).y_offset + line_metric(tl, line).height]
    IN  IF first.panic \/ last.panic \/ \E line \in first_line..last_line : fails(line)
        THEN [panic |-> TRUE, rects |-> <<>>]
        ELSE [panic |-> FALSE,
              rects |-> [k \in 1..(last_line - first_line + 1)
                           |-> rect(first_line + k - 1)]]

\* ------------------------------------------------------------------------
\* The grapheme-level hit test: the horizontal search of a point in a line
\* whose clusters are measured one at a time
\* ------------------------------------------------------------------------

\* greatest number of clusters of a searched line
MaxClusters == 5

\* the widths a cluster may have, in pixels (0: a cluster without advance)
ClusterWidths == {0, 1, 2}

RECURSIVE SumWidths(_)
SumWidths(w) == IF w = <<>> THEN 0 ELSE Head(w) + SumWidths(Tail(w))

\* the bounds of cluster i (0-based) of a line with the cluster widths w:
\* the x of its leading and of its trailing edge
get_grapheme_boundaries(w, i) ==
    [leading |-> SumWidths(SubSeq(w, 1, i)),
     trailing |-> SumWidths(SubSeq(w, 1, i + 1))]

\* the hit of x in a cluster with the bounds b at index i: nothing if x is
\* outside [leading, trailing], else the nearer boundary, the one before
\* the cluster if x is closer to its leading edge, else the one after it
point_x_in_grapheme(x, b, i) ==
    IF x < b.leading \/ x > b.trailing THEN None
    ELSE IF x - b.leading < b.trailing - x THEN Some(i)
    ELSE Some(i + 1)

\* the middle of the window [left, right)
middle_of(left, right) == left + ((right - left) \div 2)

\* the window after a probe that did not hit, with `left = middle`
next_window_left_at_middle(w, x, left, right) ==
    LET middle == middle_of(left, right)
    IN  IF x < get_grapheme_boundaries(w, middle).leading
        THEN [left |-> left, right |-> middle]
        ELSE [left |-> middle, right |-> right]

\* the window after a probe of the middle cluster that did not hit: the
\* part strictly left of the middle if x is before the cluster's leading
\* edge, the part strictly right of it if x is behind its trailing edge
next_window(w, x, left, right) ==
    LET middle == middle_of(left, right)
    IN  IF x < get_grapheme_boundaries(w, middle).leading
        THEN [left |-> left, right |-> middle]
        ELSE [left |-> middle + 1, right |-> right]

\* no search is under way
SearchIdle ==
    [pc |-> "idle", widths |-> <<>>, x |-> 0, left |-> 0, right |-> 0,
     probes |-> 0, idx |-> 0, is_inside |-> FALSE]

\* ------------------------------------------------------------------------
\* The state machine: a builder is made from a text, built into a layout,
\* and the layout is resized and queried
\* ------------------------------------------------------------------------

VARIABLES
    stage,      \* "factory": PangoText only; "builder"; "built"
    builder,    \* the PangoTextLayoutBuilder (build consumes it)
    layout,     \* the PangoTextLayout: the pango layout and the text
    op,         \* the last query made of the layout ("none" if none)
    arg,        \* its arguments
    res,        \* its result
    search      \* the horizontal search of a point in a line of clusters

vars == <<stage, builder, layout, op, arg, res, search>>

\* the inputs of the operations
TextInputs == Texts(MaxLen)

WidthInputs == {F64_INFINITY, 3, 5, 4194304}

AlignmentInputs == {"Start", "End"}

OptWidthInputs == {None} \cup { Some(w) : w \in WidthInputs }

MaxBytes == 3 * MaxLen

PointXs == (-1)..(MaxBytes + 1) \cup {4194304}

PointYs == {-1, 0, FONT_HEIGHT - 1, FONT_HEIGHT, 5 * FONT_HEIGHT}

IdxInputs == { usize(n) : n \in 0..(MaxBytes + 1) }
                 \cup {usize(INT_MAX), [hi |-> 1, lo |-> 0]}

LineNumbers == 0..(MaxLen + 1)

\* the ranges start..end, as resolved by the call
RangeInputs ==
    LET bounds == {usize(0), usize(1), usize(2), usize(4), [hi |-> 1, lo |-> 0]}
    IN  { r \in bounds \X bounds :
            r[1].hi < r[2].hi \/ (r[1].hi = r[2].hi /\ r[1].lo <= r[2].lo) }

NoQuery == /\ op' = "none"
           /\ arg' = <<>>
           /\ res' = <<>>

Init ==
    /\ stage = "factory"
    /\ builder = new_text_layout(<<>>)
    /\ layout = [layout |-> pango_layout_new, text |-> <<>>]
    /\ op = "none"
    /\ arg = <<>>
    /\ res = <<>>
    /\ search = SearchIdle

NewTextLayout ==
    \E t \in TextInputs :
        /\ stage = "factory"
        /\ stage' = "builder"
        /\ builder' = new_text_layout(t)
        /\ NoQuery
        /\ UNCHANGED <<layout, search>>

MaxWidth ==
    \E w \in WidthInputs :
        /\ stage = "builder"
        /\ builder' = max_width(builder, w)
        /\ UNCHANGED <<stage, layout, op, arg, res, search>>

Alignment ==
    \E a \in AlignmentInputs :
        /\ stage = "builder"
        /\ builder' = alignment(builder, a)
        /\ UNCHANGED <<stage, layout, op, arg, res, search>>

Build ==
    /\ stage = "builder"
    /\ stage' = "built"
    /\ layout' \in build(builder)
    /\ builder' = new_text_layout(<<>>)
    /\ NoQuery
    /\ UNCHANGED search

\* update_width changes the layout and returns Ok(()): it has no error
\* path and no conversion that can panic
UpdateWidth ==
    \E w \in OptWidthInputs :
        /\ stage = "built"
        /\ op = "none"
        /\ layout' \in update_width(layout, w)
        /\ op' = "update_width"
        /\ arg' = <<w>>
        /\ res' = [panic |-> FALSE, ok |-> TRUE]
        /\ UNCHANGED <<stage, builder, search>>

\* `let mut b = a.clone(); b.update_width(w)`, a being the layout: the
\* derived Clone copies the two fields; the copy of the pango::Layout is
\* a new reference to the same pango object, the copy of the Arc<str> a
\* new reference to the same text.  The width is set on the object that
\* `layout` refers to as well.
CloneUpdateWidth ==
    \E w \in OptWidthInputs :
        /\ stage = "built"
        /\ op = "none"
        /\ layout' \in update_width(clone(layout), w)
        /\ op' = "clone_update_width"
        /\ arg' = <<w>>
        /\ res' = [panic |-> FALSE, ok |-> TRUE]
        /\ UNCHANGED <<stage, builder, search>>

QueryLineCount ==
    /\ stage = "built"
    /\ op = "none"
    /\ op' = "line_count"
    /\ arg' = <<>>
    /\ res' = line_count(layout)
    /\ UNCHANGED <<stage, builder, layout, search>>

QuerySize ==
    /\ stage = "built"
    /\ op = "none"
    /\ op' = "size"
    /\ arg' = <<>>
    /\ res' = size(layout)
    /\ UNCHANGED <<stage, builder, layout, search>>

QueryImageBounds ==
    /\ stage = "built"
    /\ op = "none"
    /\ op' = "image_bounds"
    /\ arg' = <<>>
    /\ res' = image_bounds(layout)
    /\ UNCHANGED <<stage, builder, layout, search>>

QueryLineText ==
    \E n \in LineNumbers :
        /\ stage = "built"
        /\ op = "none"
        /\ op' = "line_text"
        /\ arg' = <<n>>
        /\ res' = line_text(layout, n)
        /\ UNCHANGED <<stage, builder, layout, search>>

QueryLineMetric ==
    \E n \in LineNumbers :
        /\ stage = "built"
        /\ op = "none"
        /\ op' = "line_metric"
        /\ arg' = <<n>>
        /\ res' = line_metric(layout, n)
        /\ UNCHANGED <<stage, builder, layout, search>>

QueryHitTestPoint ==
    \E x \in PointXs, y \in PointYs :
        /\ stage = "built"
        /\ op = "none"
        /\ op' = "hit_test_point"
        /\ arg' = <<x, y>>
        /\ res' \in hit_test_point(layout, x, y)
        /\ UNCHANGED <<stage, builder, layout, search>>

QueryHitTestTextPosition ==
    \E idx \in IdxInputs :
        /\ stage = "built"
        /\ op = "none"
        /\ op' = "hit_test_text_position"
        /\ arg' = <<idx>>
        /\ res' = hit_test_text_position(layout, idx)
        /\ UNCHANGED <<stage, builder, layout, search>>

QueryRectsForRange ==
    \E r \in RangeInputs :
        /\ stage = "built"
        /\ op = "none"
        /\ op' = "rects_for_range"
        /\ arg' = r
        /\ res' = rects_for_range(layout, r[1], r[2])
        /\ UNCHANGED <<stage, builder, layout, search>>

\* the caller drops the result; the layout can be queried again
Forget ==
    /\ op # "none"
    /\ NoQuery
    /\ UNCHANGED <<stage, builder, layout, search>>

Next ==
    \/ NewTextLayout
    \/ MaxWidth
    \/ Alignment
    \/ Build
    \/ UpdateWidth
    \/ CloneUpdateWidth
    \/ QueryLineCount
    \/ QuerySize
    \/ QueryImageBounds
    \/ QueryLineText
    \/ QueryLineMetric
    \/ QueryHitTestPoint
    \/ QueryHitTestTextPosition
    \/ QueryRectsForRange
    \/ Forget

Spec == Init /\ [][Next]_vars

\* ------------------------------------------------------------------------
\* The state machine of the horizontal search: a line and an x are chosen,
\* the ends of the line are tried, then the middle cluster of the window is
\* probed until a cluster is hit
\* ------------------------------------------------------------------------

LineInputs == UNION { [1..k -> ClusterWidths] : k \in 0..MaxClusters }

\* the first step: an empty line, an x beyond the last cluster and an x at
\* or before the first cluster are answered at once; else the search
\* starts with the window of all clusters
SearchStart ==
    \E w \in LineInputs : \E x \in (-1)..(SumWidths(w) + 1) :
        /\ search.pc = "idle"
        /\ search' =
             IF w = <<>>
             THEN [SearchIdle EXCEPT !.pc = "done", !.widths = w, !.x = x]
             ELSE IF x > get_grapheme_boundaries(w, Len(w) - 1).trailing
             THEN [SearchIdle EXCEPT !.pc = "done", !.widths = w, !.x = x,
                                     !.idx = Len(w)]
             ELSE IF x <= get_grapheme_boundaries(w, 0).leading
             THEN [SearchIdle EXCEPT !.pc = "done", !.widths = w, !.x = x]
             ELSE [SearchIdle EXCEPT !.pc = "search", !.widths = w, !.x = x,
                                     !.right = Len(w)]
        /\ UNCHANGED <<stage, builder, layout, op, arg, res>>

\* one iteration of the loop: the middle cluster is measured; a hit ends
\* the search, else the window shrinks to one side of the middle
SearchProbe ==
    /\ search.pc = "search"
    /\ LET middle == middle_of(search.left, search.right)
           hit == point_x_in_grapheme(
                      search.x, get_grapheme_boundaries(search.widths, middle), middle)
           win == next_window(search.widths, search.x, search.left, search.right)
       IN  search' =
             IF hit.some
             THEN [search EXCEPT !.pc = "done", !.probes = @ + 1,
                                 !.idx = hit.val, !.is_inside = TRUE]
             ELSE [search EXCEPT !.probes = @ + 1,
                                 !.left = win.left, !.right = win.right]
    /\ UNCHANGED <<stage, builder, layout, op, arg, res>>

\* the result is returned
SearchReturn ==
    /\ search.pc = "done"
    /\ search' = SearchIdle
    /\ UNCHANGED <<stage, builder, layout, op, arg, res>>

SearchNext ==
    \/ SearchStart
    \/ SearchProbe
    \/ SearchReturn

\* the loop runs on: an iteration that can be made is made
SearchSpec == Init /\ [][SearchNext]_vars /\ WF_vars(SearchProbe)

\* ------------------------------------------------------------------------
\* Claims
\* ------------------------------------------------------------------------

\* the line records of the layout, line_metric(0) .. line_metric(line_count-1)
LineRecords(tl) == [n \in 0..(line_count(tl) - 1) |-> line_metric(tl, n)]

\* C1: for every text and every width the line records partition the text:
\* every line_metric(n) with n < line_count() exists, the first starts at 0,
\* each starts where the one before ends, the last ends at len(text), and
\* start_offset <= end_offset on every line.
C1_LinesPartitionText ==
    op = "line_count" =>
        LET m == LineRecords(layout)
            last == res - 1
        IN  /\ last >= 0
            /\ \A n \in 0..last :
                 /\ ~m[n].panic
                 /\ m[n].some
                 /\ m[n].start_offset <= m[n].end_offset
            /\ m[0].start_offset = 0
            /\ \A n \in 0..(last - 1) : m[n].end_offset = m[n + 1].start_offset
            /\ m[last].end_offset = ByteLen(layout.text)

\* the lines of a text of several characters, laid out at a finite width,
\* have been counted, and the last record ends at the end of the text
C1_Witness ==
    /\ op = "line_count"
    /\ Len(layout.text) >= 2
    /\ layout.layout.width >= 0
    /\ line_metric(layout, res - 1).end_offset = ByteLen(layout.text)
    /\ ByteLen(layout.text) > 0

\* C2: hit_test_point returns a text position for every point: it does not
\* panic, and the index is at most len(text) and a grapheme boundary.
C2_HitTestPointTotal ==
    op = "hit_test_point" =>
        /\ ~res.panic
        /\ 0 <= res.idx
        /\ res.idx <= ByteLen(layout.text)
        /\ res.idx \in GraphemeBoundaries(layout.text)

\* a point left of and above a text of several characters has been tested
C2_Witness ==
    /\ op = "hit_test_point"
    /\ arg = <<-1, -1>>
    /\ Len(layout.text) >= 2
    /\ ~res.panic

\* the last line record
LastLine(tl) == line_count(tl) - 1

\* the height of the layout: the bottom of the last line
TotalHeight(tl) ==
    line_metric(tl, LastLine(tl)).y_offset + line_metric(tl, LastLine(tl)).height

\* the line a y coordinate selects: the first line above the layout, the
\* last line below it, else the line whose band [y_offset, y_offset+height)
\* holds y
SelectedLine(tl, y) ==
    IF y < 0 THEN 0
    ELSE IF y >= TotalHeight(tl) THEN LastLine(tl)
    ELSE CHOOSE n \in 0..LastLine(tl) :
           /\ line_metric(tl, n).y_offset <= y
           /\ y < line_metric(tl, n).y_offset + line_metric(tl, n).height

\* the text of a line record, and the text without its trailing whitespace
LineText(tl, m) == StrSlice(tl.text, m.start_offset, m.end_offset).str

VisibleText(line) == SubSeq(line, 1, Len(line) - count_trailing_whitespace(line))

\* C3: a point above the first line is resolved against the first line and
\* a point at or below the total height against the last line; is_inside is
\* false, the index lies in that line's range, and it still depends on x
\* (on a line with visible text some other x gives another index).
C3_VerticalClamping ==
    (op = "hit_test_point" /\ (arg[2] < 0 \/ arg[2] >= TotalHeight(layout))) =>
        LET m == line_metric(layout, SelectedLine(layout, arg[2]))
        IN  /\ ~res.panic
            /\ ~res.is_inside
            /\ m.start_offset <= res.idx
            /\ res.idx <= m.end_offset
            /\ VisibleText(LineText(layout, m)) # <<>> =>
                 \E x \in PointXs :
                    \A r \in hit_test_point(layout, x, arg[2]) : r.idx # res.idx

\* C4: a point whose y lies in a line's band is resolved against that line,
\* and is_inside is true exactly when x is right of the leading edge of the
\* line's first cluster and not beyond the trailing edge of its last one.
C4_InsideIsVerticalAndHorizontal ==
    (op = "hit_test_point" /\ 0 <= arg[2] /\ arg[2] < TotalHeight(layout)) =>
        LET m == line_metric(layout, SelectedLine(layout, arg[2]))
            width == AdvanceWidth(VisibleText(LineText(layout, m)))
        IN  /\ ~res.panic
            /\ m.start_offset <= res.idx
            /\ res.idx <= m.end_offset
            /\ res.is_inside = (0 < arg[1] /\ arg[1] <= width)

\* C5: on a line with visible text, an x beyond the trailing edge of the
\* last visible cluster gives the line's visible end offset, an x at or
\* before the leading edge of the first cluster gives the line's
\* start_offset; is_inside is false in both cases.
C5_HorizontalOutOfBounds ==
    op = "hit_test_point" =>
        LET m == line_metric(layout, SelectedLine(layout, arg[2]))
            visible == VisibleText(LineText(layout, m))
        IN  visible # <<>> =>
              /\ arg[1] > AdvanceWidth(visible) =>
                   /\ res.idx = m.end_offset - m.trailing_whitespace
                   /\ ~res.is_inside
              /\ arg[1] <= 0 =>
                   /\ res.idx = m.start_offset
                   /\ ~res.is_inside

\* C6: on a line that ends in a trailing space, and on the last line, an x
\* at or beyond the right end of the line's text (trailing space included)
\* gives the line's end_offset: the next line's start, len(text) on the
\* last line.
C6_EndOfLineAfterTrailingSpace ==
    op = "hit_test_point" =>
        LET n == SelectedLine(layout, arg[2])
            m == line_metric(layout, n)
            line == LineText(layout, m)
        IN  ( /\ arg[1] >= AdvanceWidth(line)
              /\ \/ n = LastLine(layout)
                 \/ (line # <<>> /\ line[Len(line)] \in {"sp", "em"}) )
            => res.idx = m.end_offset

\* C7: an x within the extent [leading, trailing] of a cluster of the
\* selected line gives the nearest boundary: the offset before the cluster
\* if x is closer to its leading edge, the offset after it if x is closer
\* to its trailing edge.
C7_NearestGraphemeBoundary ==
    op = "hit_test_point" =>
        LET m == line_metric(layout, SelectedLine(layout, arg[2]))
            line == LineText(layout, m)
            x == arg[1] * PANGO_SCALE
        IN  \A c \in Clusters(line) :
              (c.leading <= x /\ x <= c.trailing) =>
                /\ x - c.leading < c.trailing - x =>
                     res.idx = m.start_offset + BytesBefore(line, c.first)
                /\ x - c.leading > c.trailing - x =>
                     res.idx = m.start_offset + BytesBefore(line, c.first + c.chars)

\* C8: hit_test_text_position clamps its offset to the text length: an
\* idx > len(text) does not fail and gives the point and the line that
\* idx = len(text) gives.
C8_OffsetClampedToLength ==
    ( /\ op = "hit_test_text_position"
      /\ (arg[1].hi > 0 \/ arg[1].lo > ByteLen(layout.text)) ) =>
        /\ ~res.panic
        /\ res = hit_test_text_position(layout, usize(ByteLen(layout.text)))

\* C9: hit_test_text_position panics for an idx < len(text) that is not a
\* character boundary, and does not panic for a character boundary, also
\* one inside a grapheme cluster.
C9_PanicsOffCharBoundary ==
    ( /\ op = "hit_test_text_position"
      /\ arg[1].hi = 0
      /\ arg[1].lo < ByteLen(layout.text) ) =>
        (res.panic <=> ~is_char_boundary(layout.text, arg[1].lo))

\* C10: with the text broken into lines at its hard breaks and, under the
\* layout's width, at its soft breaks, hit_test_text_position reports an
\* offset on the line whose range holds it, the later line at an offset
\* shared by two lines (with x = 0 there); an offset in a line's trailing
\* whitespace stays on that line, the end of the text on the last line.
C10_LineOfOffset ==
    ( /\ op = "hit_test_text_position"
      /\ arg[1].hi = 0
      /\ is_char_boundary(layout.text, arg[1].lo) ) =>
        LET lines == layout_lines(layout.text, layout.layout.width)
            n == Max({ k \in 0..(Len(lines) - 1) : lines[k + 1].start_index <= arg[1].lo })
        IN  /\ ~res.panic
            /\ res.line = n
            /\ (n > 0 /\ lines[n + 1].start_index = arg[1].lo) => res.x = 0

\* an offset hit_test_text_position accepts: at most len(text) and on a
\* character boundary
ValidOffset(tl, idx) ==
    /\ idx.hi = 0
    /\ idx.lo <= ByteLen(tl.text)
    /\ is_char_boundary(tl.text, idx.lo)

\* the line that holds byte offset o when the text is broken at its hard
\* breaks and, under the layout's width, at its soft breaks: the later line
\* at an offset shared by two lines
LineOfOffset(tl, o) ==
    LET lines == layout_lines(tl.text, tl.layout.width)
    IN  Max({ k \in 0..(Len(lines) - 1) : lines[k + 1].start_index <= o })

\* C11: for every valid offset o, with n the line hit_test_text_position
\* reports and m = line_metric(n), the point's y is m.y_offset + m.baseline,
\* and that is the baseline, measured from the top of the layout, of the
\* line that holds o, on every line and not only on line 0.
C11_BaselineOfLine ==
    (op = "hit_test_text_position" /\ ValidOffset(layout, arg[1])) =>
        LET m == line_metric(layout, res.line)
        IN  /\ ~res.panic
            /\ m.some
            /\ res.y = m.y_offset + m.baseline
            /\ res.y = units_to_double(line_baseline(LineOfOffset(layout, arg[1].lo)))

\* the greatest grapheme-cluster boundary of the text at or before offset o
ClusterStart(tl, o) == Max({ b \in GraphemeBoundaries(tl.text) : b <= o })

\* C12: for every character-boundary offset o, on the line L that
\* hit_test_text_position reports, the point's x is the advance width of
\* text[L.start_offset .. g], g the greatest grapheme-cluster boundary <= o:
\* an offset inside a cluster gives the x of the cluster's leading edge, an
\* offset in the trailing whitespace includes the whitespace before it.
C12_XIsAdvanceToClusterStart ==
    (op = "hit_test_text_position" /\ ValidOffset(layout, arg[1])) =>
        LET m == line_metric(layout, res.line)
            g == ClusterStart(layout, arg[1].lo)
        IN  /\ ~res.panic
            /\ m.some
            /\ m.start_offset <= g
            /\ res.x = AdvanceWidth(StrSlice(layout.text, m.start_offset, g).str)

\* C13: round trip: for every grapheme-boundary offset o of the text,
\* hit_test_point at the point hit_test_text_position(o) returns gives
\* idx = o again.
C13_RoundTrip ==
    ( /\ op = "hit_test_text_position"
      /\ arg[1].hi = 0
      /\ arg[1].lo \in GraphemeBoundaries(layout.text) ) =>
        /\ ~res.panic
        /\ \A r \in hit_test_point(layout, res.x, res.y) :
             ~r.panic /\ r.idx = arg[1].lo

\* C14: monotonicity: for valid offsets o1 < o2 that hit_test_text_position
\* reports on the same line, the x of o1 is at most the x of o2.
C14_XMonotone ==
    (op = "hit_test_text_position" /\ ValidOffset(layout, arg[1])) =>
        \A o1 \in 0..(arg[1].lo - 1) :
            LET r1 == hit_test_text_position(layout, usize(o1))
            IN  (ValidOffset(layout, usize(o1)) /\ r1.line = res.line) =>
                    /\ ~r1.panic
                    /\ ~res.panic
                    /\ r1.x <= res.x

\* the end of a text of several characters has been located, and offset 1,
\* a valid offset before it, lies on the same line
C14_Witness ==
    /\ op = "hit_test_text_position"
    /\ Len(layout.text) >= 2
    /\ arg[1] = usize(ByteLen(layout.text))
    /\ ~res.panic
    /\ ValidOffset(layout, usize(1))
    /\ hit_test_text_position(layout, usize(1)).line = res.line

\* C15: for a non-empty text laid out on a single line,
\* hit_test_text_position(0) has x = 0 and hit_test_text_position(len(text))
\* has x = size().width, also for texts of multi-byte characters and of
\* clusters of several code points.
C15_EndsOfSingleLine ==
    ( /\ op = "hit_test_text_position"
      /\ layout.text # <<>>
      /\ line_count(layout) = 1
      /\ arg[1].hi = 0 ) =>
        /\ arg[1].lo = 0 => (~res.panic /\ res.x = 0)
        /\ arg[1].lo = ByteLen(layout.text) =>
             (~res.panic /\ res.x = size(layout).width)

\* the end of a single-line text that holds a cluster of two code points
\* (a letter and a variation selector, 4 bytes) has been located
C15_Witness ==
    /\ op = "hit_test_text_position"
    /\ line_count(layout) = 1
    /\ \E i \in 1..(Len(layout.text) - 1) :
         layout.text[i] = "a" /\ layout.text[i + 1] = "vs"
    /\ arg[1] = usize(ByteLen(layout.text))
    /\ res.x = size(layout).width

\* C16: hit testing a layout of the empty text is well defined:
\* hit_test_point((0,0)) has idx 0, and hit_test_text_position(0) is on
\* line 0 with x = 0 and y = the ascent of the default font (the first
\* line's baseline), not 0.
C16_EmptyTextHitTests ==
    (stage = "built" /\ layout.text = <<>>) =>
        /\ (op = "hit_test_point" /\ arg = <<0, 0>>) =>
             (~res.panic /\ res.idx = 0)
        /\ (op = "hit_test_text_position" /\ arg[1] = usize(0)) =>
             /\ ~res.panic
             /\ res.line = 0
             /\ res.x = 0
             /\ res.y = FONT_ASCENT
             /\ res.y # 0

\* offset 0 of a layout of the empty text has been located
C16_Witness ==
    /\ stage = "built"
    /\ layout.text = <<>>
    /\ op = "hit_test_text_position"
    /\ arg[1] = usize(0)
    /\ res.y = FONT_ASCENT

\* C17: a layout of the empty text has exactly one line record:
\* line_count() is 1, line_metric(0) is Some with start_offset = end_offset
\* = 0, no trailing whitespace and a positive height, line_metric(1) is None.
C17_EmptyTextOneLine ==
    (stage = "built" /\ layout.text = <<>>) =>
        /\ op = "line_count" => res = 1
        /\ (op = "line_metric" /\ arg[1] = 0) =>
             /\ ~res.panic
             /\ res.some
             /\ res.start_offset = 0
             /\ res.end_offset = 0
             /\ res.trailing_whitespace = 0
             /\ res.height > 0
        /\ (op = "line_metric" /\ arg[1] = 1) => (~res.panic /\ ~res.some)

\* line 1 of a layout of the empty text has been asked for
C17_Witness ==
    /\ stage = "built"
    /\ layout.text = <<>>
    /\ op = "line_metric"
    /\ arg[1] = 1
    /\ ~res.some

\* C18: a text that ends in a hard line break has, as its last line record,
\* an additional empty record with start_offset = end_offset = len(text); a
\* text that does not end in a hard line break has no empty last record.
C18_EmptyLineAfterFinalBreak ==
    (op = "line_count" /\ layout.text # <<>>) =>
        LET m == line_metric(layout, res - 1)
            len == ByteLen(layout.text)
        IN  /\ ~m.panic
            /\ m.some
            /\ IF layout.text[Len(layout.text)] = "nl"
               THEN m.start_offset = len /\ m.end_offset = len
               ELSE m.start_offset # m.end_offset

\* the number of hard line breaks of a text
HardBreaks(t) == Cardinality({ i \in 1..Len(t) : t[i] = "nl" })

\* C19: without a width constraint (the pango width is -1: the builder
\* default, max_width(f64::INFINITY), update_width(None)) no soft wrapping
\* happens: line_count() is 1 plus the number of hard line breaks.
C19_NoWrapWithoutWidth ==
    (op = "line_count" /\ layout.layout.width < 0) =>
        res = 1 + HardBreaks(layout.text)

\* the text holds one word at most: no whitespace follows a character that
\* is not whitespace
SingleWord(line) ==
    \A i \in 1..Len(line) : \A j \in (i + 1)..Len(line) :
        ~is_whitespace(line[i]) => ~is_whitespace(line[j])

\* C20: under a finite max_width (one whose conversion to pango units is
\* defined) every line, without its trailing whitespace, is at most
\* max_width wide, except a line whose visible text is a single word.
C20_LinesFitWidth ==
    ( /\ op = "line_count"
      /\ \E w \in WidthInputs \ {F64_INFINITY} :
            units_from_double(w) = {layout.layout.width} ) =>
        \A n \in 0..(res - 1) :
            LET m == line_metric(layout, n)
                visible == VisibleText(LineText(layout, m))
            IN  /\ m.some
                /\ \/ AdvanceWidth(visible) * PANGO_SCALE <= layout.layout.width
                   \/ SingleWord(visible)

\* the maximal run of whitespace characters at the end of a line
TrailingRun(line) == SubSeq(line, Len(VisibleText(line)) + 1, Len(line))

\* C21: for every line, trailing_whitespace is the length in bytes of the
\* maximal run of whitespace at the end of text[start_offset..end_offset],
\* also when the whitespace holds multi-byte characters; so end_offset -
\* trailing_whitespace is >= start_offset, a character boundary, and the end
\* of the line's visible text.
C21_TrailingWhitespaceInBytes ==
    (op = "line_metric" /\ res.some) =>
        LET line == LineText(layout, res)
            visible_end == res.end_offset - res.trailing_whitespace
        IN  /\ res.trailing_whitespace = ByteLen(TrailingRun(line))
            /\ visible_end >= res.start_offset
            /\ is_char_boundary(layout.text, visible_end)
            /\ StrSlice(layout.text, res.start_offset, visible_end).str
                 = VisibleText(line)

C23_LineAccessorsInRange ==
    /\ op \in {"line_text", "line_metric"} =>
         /\ ~res.panic
         /\ res.some <=> arg[1] < line_count(layout)
    /\ (op = "line_text" /\ res.some) =>
         LET m == line_metric(layout, arg[1])
         IN  /\ m.some
             /\ res.str = StrSlice(layout.text, m.start_offset, m.end_offset).str

\* the line after the last one of a text of several characters has been
\* asked for
C23_Witness ==
    /\ op = "line_text"
    /\ Len(layout.text) >= 2
    /\ arg[1] = line_count(layout)
    /\ ~res.some
    /\ ~res.panic

\* the pango widths that correspond to a requested width: -1 (no width)
\* for None and for f64::INFINITY, the width in units for a width that has
\* one, and for a finite width beyond the range of the units the greatest
\* width or no width (never a smaller one)
AppliedWidths(new_width) ==
    IF ~new_width.some \/ new_width.val = F64_INFINITY THEN {-1}
    ELSE IF new_width.val <= INT_MAX \div PANGO_SCALE
    THEN {new_width.val * PANGO_SCALE}
    ELSE {-1, INT_MAX}

\* C24: update_width returns Ok(()) for every finite or infinite width and
\* for None, and never panics; the width applied corresponds to the width
\* requested, without wrap-around or truncation of a large finite width.
C24_UpdateWidthApplies ==
    op = "update_width" =>
        /\ ~res.panic
        /\ res.ok
        /\ layout.layout.width \in AppliedWidths(arg[1])

\* every query gives the same result on the layouts a and b
SameQueries(a, b) ==
    /\ a.text = b.text
    /\ line_count(a) = line_count(b)
    /\ size(a) = size(b)
    /\ image_bounds(a) = image_bounds(b)
    /\ \A n \in LineNumbers :
         /\ line_metric(a, n) = line_metric(b, n)
         /\ line_text(a, n) = line_text(b, n)
    /\ \A x \in PointXs, y \in PointYs :
         hit_test_point(a, x, y) = hit_test_point(b, x, y)
    /\ \A idx \in IdxInputs :
         hit_test_text_position(a, idx) = hit_test_text_position(b, idx)

\* the layouts build gives for the text and the alignment of tl and an
\* optional width, None being the builder's default
FreshLayouts(tl, new_width) ==
    LET w == IF new_width.some THEN new_width.val ELSE F64_INFINITY
        all == UNION { build(alignment(max_width(new_text_layout(tl.text), w), a))
                       : a \in {"Start", "Center", "End"} }
    IN  { fresh \in all : fresh.layout.alignment = tl.layout.alignment }

\* C25: a width change is a full recomputation: after update_width(w) the
\* layout holds the width, and gives the line_count, the line_metrics and
\* the hit-test results, of a layout freshly built from the same text with
\* max_width(w), whatever widths it had before; update_width(None) does
\* what update_width(f64::INFINITY) does; text() is unchanged.
C25_WidthChangeRecomputes ==
    [][ op' = "update_width" =>
          /\ layout'.text = layout.text
          /\ update_width(layout, None) = update_width(layout, Some(F64_INFINITY))
          /\ \E fresh \in FreshLayouts(layout, arg'[1]) :
               /\ fresh.layout.width = layout'.layout.width
               /\ SameQueries(layout', fresh) ]_vars

\* update_width(3.0) has been applied to a layout of a text of several
\* characters
C25_Witness ==
    /\ op = "update_width"
    /\ arg = <<Some(3)>>
    /\ Len(layout.text) >= 2
    /\ layout.layout.width = 3 * PANGO_SCALE

\* C26: a width update never changes a layout that another holder shares:
\* after `let mut b = a.clone(); b.update_width(w)` every query on a
\* (line_count, line_metric, line_text, size, image_bounds, the hit tests)
\* returns what it returned before the update.
C26_CloneUpdateLeavesOriginal ==
    [][ op' = "clone_update_width" => SameQueries(layout', layout) ]_vars

\* the byte range [lo, hi) of line k (0-based) of a sequence of lines: a
\* line reaches to the start of the next one, the last line to the end of
\* the text
LineSpan(lines, k, text_len) ==
    [lo |-> lines[k + 1].start_index,
     hi |-> IF k + 1 < Len(lines) THEN lines[k + 2].start_index ELSE text_len]

\* C27: rects_for_range clamps the range to the text length and, for a
\* range that is not empty, returns exactly one rectangle for each line of
\* the text (broken at its hard breaks and, under the layout's width, at its
\* soft breaks) that intersects the half-open range, in line order; each
\* rectangle spans y from its line's y_offset to y_offset + height, and x
\* from the hit-tested x of the range start clamped to the line to the
\* hit-tested x of the range end clamped to the line's visible end, with
\* x0 <= x1.
C27_RectsPerIntersectingLine ==
    op = "rects_for_range" =>
        LET text_len == ByteLen(layout.text)
            s == min_usize(arg[1], text_len)
            e == min_usize(arg[2], text_len)
            lines == layout_lines(layout.text, layout.layout.width)
            span(k) == LineSpan(lines, k, text_len)
            hit == { k \in 0..(Len(lines) - 1) :
                       Max({s, span(k).lo}) < Min({e, span(k).hi}) }
            nth(i) == Min(hit) + i - 1
        IN  s < e =>
              /\ ~res.panic
              /\ Len(res.rects) = Cardinality(hit)
              /\ \A i \in 1..Len(res.rects) :
                   LET m == line_metric(layout, nth(i))
                       from == Max({s, m.start_offset})
                       to == Min({e, m.end_offset - m.trailing_whitespace})
                   IN  /\ m.some
                       /\ res.rects[i].y0 = m.y_offset
                       /\ res.rects[i].y1 = m.y_offset + m.height
                       /\ res.rects[i].x0 = hit_test_text_position(layout, usize(from)).x
                       /\ res.rects[i].x1 = hit_test_text_position(layout, usize(to)).x
                       /\ res.rects[i].x0 <= res.rects[i].x1

RECURSIVE Log2Floor(_)
\* the greatest k with 2^k <= n, for n >= 1
Log2Floor(n) == IF n <= 1 THEN 0 ELSE 1 + Log2Floor(n \div 2)

\* the probes a window of n clusters can still take: none if it is empty
ProbesLeft(n) == IF n <= 0 THEN 0 ELSE Log2Floor(n) + 1

\* C28: the horizontal search of hit_test_point terminates for every line
\* and every x: while it runs, left <= middle < right; each probe that does
\* not hit strictly shrinks the window; a line of g clusters takes at most
\* floor(log2(g)) + 1 probes, also with clusters of equal widths and with x
\* exactly on a cluster edge; and every search that starts ends.
C28_SearchTerminates ==
    /\ [](search.pc = "search" =>
            /\ search.left <= middle_of(search.left, search.right)
            /\ middle_of(search.left, search.right) < search.right
            /\ search.right <= Len(search.widths))
    /\ [](search.probes + (IF search.pc = "search"
                           THEN ProbesLeft(search.right - search.left) ELSE 0)
            <= ProbesLeft(Len(search.widths)))
    /\ [][ (search.pc = "search" /\ search'.pc = "search") =>
             search'.right - search'.left < search.right - search.left ]_vars
    /\ (search.pc = "search" ~> search.pc = "done")

\* a search in a line of five clusters of equal width, for an x exactly on
\* a cluster edge, has ended after more than one probe
C28_Witness ==
    /\ search.pc = "done"
    /\ search.widths = <<2, 2, 2, 2, 2>>
    /\ search.x = 8
    /\ search.probes >= 2
    /\ search.is_inside

FirstWord(line) ==
    SubSeq(line, 1, Min({ j \in 1..Len(line) : is_whitespace(line[j]) }
                        \cup {Len(line) + 1}) - 1)

\* lines i and i + 1 of the lines of the text t are parted by a soft break
\* behind a word: no line break character lies between them, and line i
\* has visible text
SoftBreak(t, lines, i) ==
    /\ i + 1 < Len(lines)
    /\ lines[i + 2].start_index = lines[i + 1].start_index + lines[i + 1].length
    /\ VisibleText(StrSlice(t, lines[i + 1].start_index,
                            lines[i + 2].start_index).str) # <<>>

\* C30: greedy word fill: where the text, under a finite max_width, is
\* broken softly, the break lies immediately after the whitespace that
\* follows a word and before a word that would overflow: line i ends and
\* line i + 1 starts at that break, the separating whitespace is counted in
\* line i's end_offset and trailing_whitespace, line i + 1 starts with the
\* first character of the word, and line i's visible text with the
\* whitespace and that word is wider than max_width.
C30_GreedyWordFill ==
    ( /\ op = "line_count"
      /\ \E w \in WidthInputs \ {F64_INFINITY} :
            units_from_double(w) = {layout.layout.width} ) =>
        LET text_len == ByteLen(layout.text)
            lines == layout_lines(layout.text, layout.layout.width)
        IN  \A i \in 0..(Len(lines) - 2) :
              SoftBreak(layout.text, lines, i) =>
                LET a == line_metric(layout, i)
                    b == line_metric(layout, i + 1)
                    a_text == LineText(layout, a)
                    b_text == LineText(layout, b)
                IN  /\ a.some
                    /\ b.some
                    /\ a.end_offset = lines[i + 2].start_index
                    /\ b.start_offset = a.end_offset
                    /\ a.trailing_whitespace = ByteLen(TrailingRun(a_text))
                    /\ a.trailing_whitespace >= 1
                    /\ b_text # <<>>
                    /\ ~is_whitespace(b_text[1])
                    /\ AdvanceWidth(a_text \o FirstWord(b_text)) * PANGO_SCALE
                         > layout.layout.width

====
